---- MODULE Spec2Model ----
(***************************************************************************)
(* Floq-v1: clone a repository, discover exported Go functions, run each   *)
(* zero-argument one in a subprocess, decode its output, and materialise   *)
(* the decoded value as a PostgreSQL table.                                *)
(*                                                                         *)
(* The model follows processor.go (RepositoryProcessor) and the extractor  *)
(* (GitHubFunctionExtractor).  The outside world - git, the file system,   *)
(* the Go toolchain, the database server - is the environment: each action *)
(* draws the outcome of its external calls from a small set.               *)
(***************************************************************************)
EXTENDS Integers, Sequences, FiniteSets, TLC

\* ------------------------------------------------------------------------
\* Bounds
\* ------------------------------------------------------------------------
MaxRepos == 2      \* repositories in the input list
MaxFiles == 2      \* Go files found in one repository
MaxDecls == 2      \* top-level function declarations in one file
MaxWork == 3       \* repositories in the list plus functions discovered in a run
MaxShapeFuncs == 1 \* functions discovered in a run that may print every shape
MaxExecs == 4      \* database statements one function can issue

URLs == {"u1", "u2"}

\* ------------------------------------------------------------------------
\* Captured standard output of the generated program.
\* A JSON document is a tagged tuple; numbers are kept in tenths so that
\* 10 is the literal 1 and 15 the literal 1.5.  <<"text", chars>> is output
\* that is not valid JSON.
\* ------------------------------------------------------------------------
JNull == <<"null">>
JNum(v) == <<"num", v>>
JStr(s) == <<"str", s>>
JBool(b) == <<"bool", b>>
JArr(s) == <<"arr", s>>
JObj(f) == <<"obj", f>>
RawText(chars) == <<"text", chars>>

Keys == {"a", "b"}
KeyOrder == <<"a", "b">>

ObjA1 == JObj([k \in {"a"} |-> JNum(10)])
ObjA2 == JObj([k \in {"a"} |-> JNum(20)])
ObjA1Bx == JObj([k \in {"a", "b"} |-> IF k = "a" THEN JNum(10) ELSE JStr("x")])
ObjEmpty == JObj([k \in {} |-> JNull])
ObjNested == JObj([k \in {"a", "b"} |-> IF k = "a" THEN JArr(<<JNum(15)>>) ELSE JBool(TRUE)])

\* every shape of output
Outputs ==
    { JNull, JNum(10), JNum(15), JBool(TRUE), JStr("x"),
      RawText(<<" ", "H", "i", " ">>),
      ObjEmpty, ObjA1Bx, ObjNested,
      JArr(<<>>), JArr(<<JNum(10), JNum(20)>>), JArr(<<JNum(10), JNum(20), JNum(30)>>),
      JArr(<<ObjA1, ObjA2>>), JArr(<<ObjA1, ObjA1Bx>>),
      JArr(<<ObjA1, JNum(10)>>), JArr(<<JNum(10), ObjA1>>) }

\* the outputs of a run that discovers several functions
FewOutputs == { JNull, JStr("x"), JArr(<<ObjA1, ObjA1Bx>>) }

\* ------------------------------------------------------------------------
\* Go values held in an interface{}: the dynamic type is the tag.
\* ------------------------------------------------------------------------
GoNil == <<"nil">>
GoString(s) == <<"string", s>>
GoFloat64(v) == <<"float64", v>>
GoBool(b) == <<"bool", b>>
GoSlice(s) == <<"slice", s>>
GoMap(f) == <<"map", f>>

IsMap(v) == v[1] = "map"
IsSlice(v) == v[1] = "slice"

\* encoding/json Unmarshal into interface{}: every JSON number becomes a
\* float64, objects become map[string]interface{}, arrays []interface{}.
RECURSIVE Unmarshal(_)
Unmarshal(j) ==
    CASE j[1] = "null" -> GoNil
      [] j[1] = "num"  -> GoFloat64(j[2])
      [] j[1] = "str"  -> GoString(j[2])
      [] j[1] = "bool" -> GoBool(j[2])
      [] j[1] = "arr"  -> GoSlice([i \in DOMAIN j[2] |-> Unmarshal(j[2][i])])
      [] j[1] = "obj"  -> GoMap([k \in DOMAIN j[2] |-> Unmarshal(j[2][k])])

IsSpace(c) == c \in {" ", "\n", "\t"}

\* strings.TrimSpace over the characters of the output
RECURSIVE TrimLeft(_)
TrimLeft(cs) == IF cs # <<>> /\ IsSpace(Head(cs)) THEN TrimLeft(Tail(cs)) ELSE cs

RECURSIVE TrimRight(_)
TrimRight(cs) ==
    IF cs # <<>> /\ IsSpace(cs[Len(cs)]) THEN TrimRight(SubSeq(cs, 1, Len(cs) - 1)) ELSE cs

RECURSIVE Concat(_)
Concat(cs) == IF cs = <<>> THEN "" ELSE Head(cs) \o Concat(Tail(cs))

TrimSpace(cs) == Concat(TrimRight(TrimLeft(cs)))

\* the digits of a float64 as Go prints it (%v and json.Marshal agree on
\* the values used here)
FormatFloat(v) ==
    IF v % 10 = 0 THEN ToString(v \div 10)
    ELSE ToString(v \div 10) \o "." \o ToString(v % 10)

\* json.Marshal of an interface{} value (map keys sorted)
RECURSIVE Marshal(_)
RECURSIVE MarshalSeq(_)
RECURSIVE MarshalFields(_, _)
MarshalSeq(s) ==
    IF s = <<>> THEN ""
    ELSE Marshal(Head(s)) \o (IF Len(s) = 1 THEN "" ELSE "," \o MarshalSeq(Tail(s)))

MarshalFields(ks, f) ==
    IF ks = <<>> THEN ""
    ELSE LET rest == MarshalFields(Tail(ks), f)
             k == Head(ks)
         IN IF k \notin DOMAIN f THEN rest
            ELSE "\"" \o k \o "\":" \o Marshal(f[k])
                 \o (IF rest = "" THEN "" ELSE "," \o rest)

Marshal(v) ==
    CASE v[1] = "nil"     -> "null"
      [] v[1] = "float64" -> FormatFloat(v[2])
      [] v[1] = "string"  -> "\"" \o v[2] \o "\""
      [] v[1] = "bool"    -> IF v[2] THEN "true" ELSE "false"
      [] v[1] = "slice"   -> "[" \o MarshalSeq(v[2]) \o "]"
      [] v[1] = "map"     -> "{" \o MarshalFields(KeyOrder, v[2]) \o "}"

\* fmt.Sprintf("%v", item)
RECURSIVE Sprintv(_)
RECURSIVE SprintvSeq(_)
RECURSIVE SprintvFields(_, _)
SprintvSeq(s) ==
    IF s = <<>> THEN ""
    ELSE Sprintv(Head(s)) \o (IF Len(s) = 1 THEN "" ELSE " " \o SprintvSeq(Tail(s)))

SprintvFields(ks, f) ==
    IF ks = <<>> THEN ""
    ELSE LET rest == SprintvFields(Tail(ks), f)
             k == Head(ks)
         IN IF k \notin DOMAIN f THEN rest
            ELSE k \o ":" \o Sprintv(f[k])
                 \o (IF rest = "" THEN "" ELSE " " \o rest)

Sprintv(v) ==
    CASE v[1] = "nil"     -> "<nil>"
      [] v[1] = "float64" -> FormatFloat(v[2])
      [] v[1] = "string"  -> v[2]
      [] v[1] = "bool"    -> IF v[2] THEN "true" ELSE "false"
      [] v[1] = "slice"   -> "[" \o SprintvSeq(v[2]) \o "]"
      [] v[1] = "map"     -> "map[" \o SprintvFields(KeyOrder, v[2]) \o "]"

\* ------------------------------------------------------------------------
\* The relational store: one entry per table name.
\* ------------------------------------------------------------------------
Names == {"A", "B", "c"}
Upper == {"A", "B"}

NoTable == [exists |-> FALSE, cols |-> <<>>, rows |-> <<>>]
EmptyStore == [n \in Names |-> NoTable]

DropTable(t) == [op |-> "DROP", table |-> t]
CreateTable(t, cols) == [op |-> "CREATE", table |-> t, cols |-> cols]
InsertInto(t, row) == [op |-> "INSERT", table |-> t, row |-> row]

\* g.db.Exec: one statement against the server.  fail is the environment
\* refusing the statement (connection lost, permission, ...); otherwise the
\* server applies it: DROP TABLE IF EXISTS always succeeds, CREATE TABLE
\* needs the name to be free, INSERT needs the table and every named column.
DbExec(st, q, fail) ==
    IF fail THEN [store |-> st, err |-> TRUE]
    ELSE CASE q.op = "DROP" ->
                [store |-> [st EXCEPT ![q.table] = NoTable], err |-> FALSE]
           [] q.op = "CREATE" ->
                IF st[q.table].exists THEN [store |-> st, err |-> TRUE]
                ELSE [store |-> [st EXCEPT ![q.table] =
                                    [exists |-> TRUE, cols |-> q.cols, rows |-> <<>>]],
                      err |-> FALSE]
           [] q.op = "INSERT" ->
                IF ~st[q.table].exists \/ ~(DOMAIN q.row \subseteq DOMAIN st[q.table].cols)
                THEN [store |-> st, err |-> TRUE]
                ELSE [store |-> [st EXCEPT ![q.table].rows = Append(@, q.row)],
                      err |-> FALSE]

\* getPostgreSQLType: a type switch on the dynamic type of the value
getPostgreSQLType(value) ==
    CASE value[1] \in {"int", "int32", "int64"} -> "INTEGER"
      [] value[1] \in {"float32", "float64"}    -> "NUMERIC"
      [] value[1] = "bool"                      -> "BOOLEAN"
      [] value[1] \in {"slice", "map"}          -> "JSONB"
      [] value[1] = "string"                    -> "TEXT"
      [] OTHER                                  -> "TEXT"

DataColumn == [c \in {"data"} |-> "JSONB"]
ValueColumn == [c \in {"value"} |-> "TEXT"]
ColumnsOf(m) == [k \in DOMAIN m |-> getPostgreSQLType(m[k])]

\* the column list of the CREATE TABLE statement (id SERIAL PRIMARY KEY is
\* implicit in every table)
TableColumns(data) ==
    CASE IsMap(data) -> ColumnsOf(data[2])
      [] IsSlice(data) ->
            IF Len(data[2]) > 0
            THEN IF IsMap(data[2][1]) THEN ColumnsOf(data[2][1][2]) ELSE ValueColumn
            ELSE DataColumn
      [] OTHER -> DataColumn

\* (variant: CREATE TABLE IF NOT EXISTS, without the DROP)
CreateTableFromDataIfNotExists(st, tableName, data, failAt) ==
    IF st[tableName].exists THEN [store |-> st, err |-> failAt = 2]
    ELSE DbExec(st, CreateTable(tableName, TableColumns(data)), failAt = 2)

\* CreateTableFromData: DROP TABLE IF EXISTS, then CREATE TABLE.  failAt is
\* the number of the Exec call the environment fails (0: none); the DROP is
\* call 1 and the CREATE call 2.
CreateTableFromData(st, tableName, data, failAt) ==
    LET d == DbExec(st, DropTable(tableName), failAt = 1)
    IN IF d.err THEN [store |-> d.store, err |-> TRUE]
       ELSE DbExec(d.store, CreateTable(tableName, TableColumns(data)), failAt = 2)

\* the value bound to a placeholder: nested arrays and objects as JSON text
BoundValue(value) ==
    IF value[1] \in {"slice", "map"} THEN GoString(Marshal(value)) ELSE value

\* (variant: the empty record is not passed over)
insertSingleRecordAlways(st, tableName, record, n, failAt) ==
    LET r == DbExec(st, InsertInto(tableName, [k \in DOMAIN record |-> BoundValue(record[k])]),
                    failAt = n)
    IN [store |-> r.store, err |-> r.err, next |-> n + 1]

\* insertSingleRecord: no statement at all for an empty record.  n is the
\* number of the Exec call this insert would be.
insertSingleRecord(st, tableName, record, n, failAt) ==
    IF DOMAIN record = {} THEN [store |-> st, err |-> FALSE, next |-> n]
    ELSE LET r == DbExec(st, InsertInto(tableName, [k \in DOMAIN record |-> BoundValue(record[k])]),
                         failAt = n)
         IN [store |-> r.store, err |-> r.err, next |-> n + 1]

\* (variant: an element whose insert fails is passed over)
RECURSIVE InsertRecordsSkipFailed(_, _, _, _, _)
InsertRecordsSkipFailed(st, tableName, items, n, failAt) ==
    IF items = <<>> THEN [store |-> st, err |-> FALSE]
    ELSE IF IsMap(Head(items))
         THEN LET r == insertSingleRecord(st, tableName, Head(items)[2], n, failAt)
              IN InsertRecordsSkipFailed(r.store, tableName, Tail(items), r.next, failAt)
         ELSE InsertRecordsSkipFailed(st, tableName, Tail(items), n, failAt)

\* the loop over an array of objects: elements that are not objects are
\* passed over, the first failing insert ends the loop
RECURSIVE InsertRecords(_, _, _, _, _)
InsertRecords(st, tableName, items, n, failAt) ==
    IF items = <<>> THEN [store |-> st, err |-> FALSE]
    ELSE IF IsMap(Head(items))
         THEN LET r == insertSingleRecord(st, tableName, Head(items)[2], n, failAt)
              IN IF r.err THEN [store |-> r.store, err |-> TRUE]
                 ELSE InsertRecords(r.store, tableName, Tail(items), r.next, failAt)
         ELSE InsertRecords(st, tableName, Tail(items), n, failAt)

\* (variant: each element as its JSON text)
RECURSIVE InsertPrimitivesAsJSON(_, _, _, _, _)
InsertPrimitivesAsJSON(st, tableName, items, n, failAt) ==
    IF items = <<>> THEN [store |-> st, err |-> FALSE]
    ELSE LET r == DbExec(st, InsertInto(tableName,
                                [c \in {"value"} |-> GoString(Marshal(Head(items)))]),
                         failAt = n)
         IN IF r.err THEN [store |-> r.store, err |-> TRUE]
            ELSE InsertPrimitivesAsJSON(r.store, tableName, Tail(items), n + 1, failAt)

\* (variant: the loop ends after the first element)
InsertPrimitivesFirstOnly(st, tableName, items, n, failAt) ==
    IF items = <<>> THEN [store |-> st, err |-> FALSE]
    ELSE DbExec(st, InsertInto(tableName,
                        [c \in {"value"} |-> GoString(Sprintv(Head(items)))]),
                failAt = n)

\* (variant: the loop goes on after a failed insert and reports it at the end)
RECURSIVE InsertPrimitivesContinue(_, _, _, _, _)
InsertPrimitivesContinue(st, tableName, items, n, failAt) ==
    IF items = <<>> THEN [store |-> st, err |-> FALSE]
    ELSE LET r == DbExec(st, InsertInto(tableName,
                                [c \in {"value"} |-> GoString(Sprintv(Head(items)))]),
                         failAt = n)
             rest == InsertPrimitivesContinue(r.store, tableName, Tail(items), n + 1, failAt)
         IN [store |-> rest.store, err |-> r.err \/ rest.err]

\* the loop over an array of primitives: each element as its %v text
RECURSIVE InsertPrimitives(_, _, _, _, _)
InsertPrimitives(st, tableName, items, n, failAt) ==
    IF items = <<>> THEN [store |-> st, err |-> FALSE]
    ELSE LET r == DbExec(st, InsertInto(tableName,
                                [c \in {"value"} |-> GoString(Sprintv(Head(items)))]),
                         failAt = n)
         IN IF r.err THEN [store |-> r.store, err |-> TRUE]
            ELSE InsertPrimitives(r.store, tableName, Tail(items), n + 1, failAt)

\* (variant: nothing is inserted for a single value)
InsertDataToTableNoDefault(st, tableName, data, failAt) ==
    CASE IsMap(data) ->
            LET r == insertSingleRecord(st, tableName, data[2], 3, failAt)
            IN [store |-> r.store, err |-> r.err]
      [] IsSlice(data) ->
            IF Len(data[2]) > 0
            THEN IF IsMap(data[2][1])
                 THEN InsertRecords(st, tableName, data[2], 3, failAt)
                 ELSE InsertPrimitives(st, tableName, data[2], 3, failAt)
            ELSE [store |-> st, err |-> FALSE]
      [] OTHER -> [store |-> st, err |-> FALSE]

\* InsertDataToTable: the Exec calls continue the numbering at 3
InsertDataToTable(st, tableName, data, failAt) ==
    CASE IsMap(data) ->
            LET r == insertSingleRecord(st, tableName, data[2], 3, failAt)
            IN [store |-> r.store, err |-> r.err]
      [] IsSlice(data) ->
            IF Len(data[2]) > 0
            THEN IF IsMap(data[2][1])
                 THEN InsertRecords(st, tableName, data[2], 3, failAt)
                 ELSE InsertPrimitives(st, tableName, data[2], 3, failAt)
            ELSE [store |-> st, err |-> FALSE]
      [] OTHER ->
            DbExec(st, InsertInto(tableName, [c \in {"data"} |-> GoString(Marshal(data))]),
                   failAt = 3)

\* ------------------------------------------------------------------------
\* Discovery
\* ------------------------------------------------------------------------
\* a parameter field of a declaration: its names (none for an unnamed
\* parameter) and its formatted type
Fields == { [Names |-> <<>>, Type |-> "int"],
            [Names |-> <<"x", "y">>, Type |-> "int"] }
ParamLists == {<<>>} \cup {<<f>> : f \in Fields}

\* the top-level function declarations a parsed file can hold
Decls == [Name : Names, Recv : BOOLEAN, Params : ParamLists]

SeqsUpTo(S, n) == UNION {[1..k -> S] : k \in 0..n}

IsExported(name) == name \in Upper

\* the entries one parameter field contributes to FunctionInfo.Parameters
FieldParameters(f) ==
    IF Len(f.Names) > 0
    THEN [k \in 1..Len(f.Names) |-> f.Names[k] \o " " \o f.Type]
    ELSE <<f.Type>>

RECURSIVE Parameters(_)
Parameters(fields) ==
    IF fields = <<>> THEN <<>>
    ELSE FieldParameters(Head(fields)) \o Parameters(Tail(fields))

\* ExtractFunctionsFromFile on a file that parses: one FunctionInfo per
\* exported declaration without receiver, in declaration order
RECURSIVE FunctionsFrom(_, _, _)
FunctionsFrom(filePath, decls, line) ==
    IF decls = <<>> THEN <<>>
    ELSE LET d == Head(decls)
             rest == FunctionsFrom(filePath, Tail(decls), line + 1)
         IN IF d.Recv \/ ~IsExported(d.Name) THEN rest
            ELSE <<[Name |-> d.Name, FilePath |-> filePath, LineNumber |-> line,
                    Parameters |-> Parameters(d.Params)]>> \o rest

ExtractFunctionsFromFile(filePath, decls) == FunctionsFrom(filePath, decls, 1)

\* ------------------------------------------------------------------------
\* Execution
\* ------------------------------------------------------------------------
ExitFailure == <<"exit">>

\* what the environment does to one execution: whether temp_main.go can be
\* written, and what `go run` gives (a failure or the captured output)
ExecEnvs(outs) == [write : BOOLEAN, run : {ExitFailure} \cup outs]

\* the decoding of the captured output: JSON first, trimmed text otherwise
Decode(output) ==
    IF output[1] = "text" THEN GoString(TrimSpace(output[2])) ELSE Unmarshal(output)

\* (variant: the check of the parameter list is missing)
ExecuteFunctionAnyArity(function, env) ==
    IF ~env.write
    THEN [data |-> GoNil, err |-> TRUE, wrote |-> FALSE, spawned |-> FALSE]
    ELSE IF env.run = ExitFailure
    THEN [data |-> GoNil, err |-> TRUE, wrote |-> TRUE, spawned |-> TRUE]
    ELSE [data |-> Decode(env.run), err |-> FALSE, wrote |-> TRUE, spawned |-> TRUE]

\* (variant: the error of the subprocess is ignored, its output taken as text)
ExecuteFunctionIgnoresExit(function, env) ==
    IF Len(function.Parameters) > 0
    THEN [data |-> GoNil, err |-> TRUE, wrote |-> FALSE, spawned |-> FALSE]
    ELSE IF ~env.write
    THEN [data |-> GoNil, err |-> TRUE, wrote |-> FALSE, spawned |-> FALSE]
    ELSE IF env.run = ExitFailure
    THEN [data |-> GoString(""), err |-> FALSE, wrote |-> TRUE, spawned |-> TRUE]
    ELSE [data |-> Decode(env.run), err |-> FALSE, wrote |-> TRUE, spawned |-> TRUE]

\* ExecuteFunction: wrote and spawned tell whether temp_main.go was written
\* and whether the subprocess was started
ExecuteFunction(function, env) ==
    IF Len(function.Parameters) > 0
    THEN [data |-> GoNil, err |-> TRUE, wrote |-> FALSE, spawned |-> FALSE]
    ELSE IF ~env.write
    THEN [data |-> GoNil, err |-> TRUE, wrote |-> FALSE, spawned |-> FALSE]
    ELSE IF env.run = ExitFailure
    THEN [data |-> GoNil, err |-> TRUE, wrote |-> TRUE, spawned |-> TRUE]
    ELSE [data |-> Decode(env.run), err |-> FALSE, wrote |-> TRUE, spawned |-> TRUE]

\* ------------------------------------------------------------------------
\* ProcessRepository: the body of the loop over the functions of a file
\* ------------------------------------------------------------------------
EmptyResult ==
    [ProcessedFunctions |-> <<>>, CreatedTables |-> <<>>,
     Errors |-> <<>>, ExecutedFunctions |-> <<>>]

\* a message of the Errors list: the stage it reports and its subject
ErrorMsg(stage, subject) == [stage |-> stage, subject |-> subject]
AppendError(res, stage, subject) ==
    [res EXCEPT !.Errors = Append(@, ErrorMsg(stage, subject))]

\* the outcome of one pass of the loop body: the result and the store after
\* it, what ExecuteFunction returned, and how CreateTableFromData and
\* InsertDataToTable returned ("ok", "err", or "none" when not called)
Pass(res, st, ex, create, insert) ==
    [result |-> res, store |-> st, ex |-> ex, create |-> create, insert |-> insert]

\* (variant: a failed insert is reported but does not skip the listing)
MaterializeNoContinue(res, st, function, ex, failAt) ==
    LET c == CreateTableFromData(st, function.Name, ex.data, failAt)
    IN IF c.err
       THEN Pass(AppendError(res, "create", function.Name), c.store, ex, "err", "none")
       ELSE LET n == InsertDataToTable(c.store, function.Name, ex.data, failAt)
                r == IF n.err THEN AppendError(res, "insert", function.Name) ELSE res
            IN Pass([r EXCEPT !.CreatedTables = Append(@, function.Name),
                              !.ExecutedFunctions = Append(@, function.Name)],
                    n.store, ex, "ok", IF n.err THEN "err" ELSE "ok")

\* create the table, insert the data, list the function
Materialize(res, st, function, ex, failAt) ==
    LET c == CreateTableFromData(st, function.Name, ex.data, failAt)
    IN IF c.err
       THEN Pass(AppendError(res, "create", function.Name), c.store, ex, "err", "none")
       ELSE LET n == InsertDataToTable(c.store, function.Name, ex.data, failAt)
            IN IF n.err
               THEN Pass(AppendError(res, "insert", function.Name), n.store, ex,
                         "ok", "err")
               ELSE Pass([res EXCEPT !.CreatedTables = Append(@, function.Name),
                                     !.ExecutedFunctions = Append(@, function.Name)],
                         n.store, ex, "ok", "ok")

\* (variant: a function is recorded as processed only once it has run)
LoopBodyRecordLate(res, st, function, env, failAt) ==
    LET r1 == [res EXCEPT !.ProcessedFunctions = Append(@, function)]
        ex == ExecuteFunction(function, env)
    IN IF ex.err
       THEN Pass(AppendError(res, "execute", function.Name), st, ex, "none", "none")
       ELSE IF ex.data[1] # "nil"
       THEN Materialize(r1, st, function, ex, failAt)
       ELSE Pass(r1, st, ex, "none", "none")

\* (variant: a nil value is materialised like any other)
LoopBodyNoNilCheck(res, st, function, env, failAt) ==
    LET r1 == [res EXCEPT !.ProcessedFunctions = Append(@, function)]
        ex == ExecuteFunction(function, env)
    IN IF ex.err
       THEN Pass(AppendError(r1, "execute", function.Name), st, ex, "none", "none")
       ELSE Materialize(r1, st, function, ex, failAt)

LoopBody(res, st, function, env, failAt) ==
    LET r1 == [res EXCEPT !.ProcessedFunctions = Append(@, function)]
        ex == ExecuteFunction(function, env)
    IN IF ex.err
       THEN Pass(AppendError(r1, "execute", function.Name), st, ex, "none", "none")
       ELSE IF ex.data[1] # "nil"
       THEN Materialize(r1, st, function, ex, failAt)
       ELSE Pass(r1, st, ex, "none", "none")

\* ------------------------------------------------------------------------
\* State
\* ------------------------------------------------------------------------
VARIABLES
    repositories,   \* the argument of ProcessRepositories
    pc,             \* where the batch stands
    i,              \* index of the repository being processed
    results,        \* RepositoryProcessor.results, keyed by URL
    totalStats,     \* RepositoryProcessor.totalStats
    db,             \* extractor.db: "nil", "open" or "closed"
    tempDir,        \* extractor.tempDir: "" or the directory created
    dirExists,      \* whether that directory exists on disk
    result,         \* the ProcessingResult under construction
    err,            \* the error ProcessRepository returns ("" for nil)
    goFiles,        \* the files found by FindGoFiles
    fi,             \* index of the file being processed
    functions,      \* the functions extracted from that file
    fj,             \* index of the function being processed
    store,          \* the tables of the database
    scan,           \* history: per file of this repository, what parsing gave
    log,            \* history: per function of this repository, what happened
    hist,           \* history: per repository processed, how it ended
    fuel,           \* functions the run may still discover
    outputs         \* what the functions of this run can print

vars == <<repositories, pc, i, results, totalStats, db, tempDir, dirExists, result,
          err, goFiles, fi, functions, fj, store, scan, log, hist, fuel, outputs>>

extractor == <<db, tempDir, dirExists>>
cursor == <<goFiles, fi, functions, fj>>
processor == <<results, totalStats, hist>>

ZeroStats ==
    [TotalRepositories |-> 0, TotalFunctions |-> 0, TotalExecuted |-> 0,
     TotalTables |-> 0, TotalErrors |-> 0]

\* the input lists, up to the renaming of the URLs
RepositoryLists == {s \in SeqsUpTo(URLs, MaxRepos) : s = <<>> \/ s[1] = "u1"}

\* a table left by an earlier run of the program
OldTable ==
    [exists |-> TRUE, cols |-> DataColumn,
     rows |-> <<[c \in {"data"} |-> GoString("1")]>>]
PriorStores == {EmptyStore, [EmptyStore EXCEPT !["A"] = OldTable]}

\* A run is either a batch over a list of repositories whose functions
\* print one of a few outputs, or one repository whose functions may print
\* any shape of output and whose database may hold an older table.
Init ==
    /\ \/ /\ repositories \in RepositoryLists
          /\ outputs = FewOutputs
          /\ fuel = MaxWork - Len(repositories)
          /\ store = EmptyStore
       \/ /\ repositories = <<"u1">>
          /\ outputs = Outputs
          /\ fuel = MaxShapeFuncs
          /\ store \in PriorStores
    /\ pc = "start"
    /\ i = 0
    /\ results = <<>>
    /\ totalStats = ZeroStats
    /\ db = "nil"
    /\ tempDir = ""
    /\ dirExists = FALSE
    /\ result = EmptyResult
    /\ err = ""
    /\ goFiles = <<>>
    /\ fi = 0
    /\ functions = <<>>
    /\ fj = 0
    /\ scan = <<>>
    /\ log = <<>>
    /\ hist = <<>>

\* ProcessRepositories is entered
Start ==
    /\ pc = "start"
    /\ pc' = "loop"
    /\ i' = 1
    /\ UNCHANGED <<repositories, processor, extractor, result, err, cursor, store,
                   scan, log, fuel, outputs>>

\* the head of the loop over the repositories: a new extractor, and
\* ProcessRepository starts with an empty result
NewExtractor ==
    /\ pc = "loop"
    /\ i <= Len(repositories)
    /\ pc' = "clone"
    /\ db' = "nil"
    /\ tempDir' = ""
    /\ dirExists' = FALSE
    /\ result' = EmptyResult
    /\ err' = ""
    /\ goFiles' = <<>>
    /\ fi' = 0
    /\ functions' = <<>>
    /\ fj' = 0
    /\ scan' = <<>>
    /\ log' = <<>>
    /\ UNCHANGED <<repositories, i, processor, store, fuel, outputs>>

\* CloneRepository and the return that follows its failure; the deferred
\* Cleanup is registered only after a successful clone
CloneRepository ==
    /\ pc = "clone"
    /\ \E o \in {"ok", "tempdir", "clone"} :
        /\ tempDir' = IF o = "tempdir" THEN "" ELSE "dir"
        /\ dirExists' = (o # "tempdir")
        /\ err' = IF o = "ok" THEN "" ELSE "clone"
        /\ pc' = IF o = "ok" THEN "connect" ELSE "returned"
    /\ UNCHANGED <<repositories, i, processor, db, result, cursor, store, scan, log, fuel, outputs>>

\* Cleanup: os.RemoveAll(g.tempDir) when tempDir is set
Cleanup(exists, dir) == IF dir # "" THEN FALSE ELSE exists

\* CloseDB: g.db.Close() when a handle is held
CloseDB(handle) == IF handle # "nil" THEN "closed" ELSE handle

\* ConnectToDB and the return that follows its failure (Cleanup runs, the
\* deferred CloseDB is not registered yet)
ConnectToDB ==
    /\ pc = "connect"
    /\ \E o \in {"ok", "open", "ping"} :
        /\ db' = IF o = "open" THEN "nil" ELSE "open"
        /\ err' = IF o = "ok" THEN "" ELSE "connect"
        /\ pc' = IF o = "ok" THEN "walk" ELSE "returned"
        /\ dirExists' = IF o = "ok" THEN dirExists ELSE Cleanup(dirExists, tempDir)
    /\ UNCHANGED <<repositories, i, processor, tempDir, result, cursor, store, scan,
                   log, fuel, outputs>>

\* FindGoFiles and the return that follows its failure (CloseDB, Cleanup)
FindGoFiles ==
    /\ pc = "walk"
    /\ \E n \in 0..MaxFiles, ok \in BOOLEAN :
        IF ok
        THEN /\ goFiles' = [k \in 1..n |-> k]
             /\ fi' = 1
             /\ pc' = "files"
             /\ UNCHANGED <<err, db, dirExists>>
        ELSE /\ err' = "walk"
             /\ pc' = "returned"
             /\ db' = CloseDB(db)
             /\ dirExists' = Cleanup(dirExists, tempDir)
             /\ UNCHANGED <<goFiles, fi>>
    /\ UNCHANGED <<repositories, i, processor, tempDir, result, functions, fj, store,
                   scan, log, fuel, outputs>>

\* (variant: a file that fails to parse ends the loop over the files)
ExtractFileStopsAtBadFile ==
    /\ pc = "files"
    /\ fi <= Len(goFiles)
    /\ \/ /\ result' = AppendError(result, "extract", goFiles[fi])
          /\ scan' = Append(scan, [ok |-> FALSE, functions |-> <<>>])
          /\ fi' = Len(goFiles) + 1
          /\ UNCHANGED <<pc, functions, fj, fuel>>
       \/ \E decls \in SeqsUpTo(Decls, MaxDecls) :
            LET fns == ExtractFunctionsFromFile(goFiles[fi], decls)
            IN /\ Len(fns) <= fuel
               /\ fuel' = fuel - Len(fns)
               /\ scan' = Append(scan, [ok |-> TRUE, functions |-> fns])
               /\ functions' = fns
               /\ IF fns = <<>>
                  THEN /\ fi' = fi + 1
                       /\ UNCHANGED <<pc, fj>>
                  ELSE /\ fj' = 1
                       /\ pc' = "funcs"
                       /\ UNCHANGED fi
               /\ UNCHANGED result
    /\ UNCHANGED <<repositories, i, processor, extractor, err, goFiles, store, log,
                   outputs>>

\* one pass of the loop over the files: the file fails to parse, or its
\* functions are extracted
ExtractFile ==
    /\ pc = "files"
    /\ fi <= Len(goFiles)
    /\ \/ /\ result' = AppendError(result, "extract", goFiles[fi])
          /\ scan' = Append(scan, [ok |-> FALSE, functions |-> <<>>])
          /\ fi' = fi + 1
          /\ UNCHANGED <<pc, functions, fj, fuel>>
       \/ \E decls \in SeqsUpTo(Decls, MaxDecls) :
            LET fns == ExtractFunctionsFromFile(goFiles[fi], decls)
            IN /\ Len(fns) <= fuel
               /\ fuel' = fuel - Len(fns)
               /\ scan' = Append(scan, [ok |-> TRUE, functions |-> fns])
               /\ functions' = fns
               /\ IF fns = <<>>
                  THEN /\ fi' = fi + 1
                       /\ UNCHANGED <<pc, fj>>
                  ELSE /\ fj' = 1
                       /\ pc' = "funcs"
                       /\ UNCHANGED fi
               /\ UNCHANGED result
    /\ UNCHANGED <<repositories, i, processor, extractor, err, goFiles, store, log,
                   outputs>>

\* one pass of the loop over the functions of a file
ProcessFunction ==
    /\ pc = "funcs"
    /\ fj <= Len(functions)
    /\ \E env \in ExecEnvs(outputs), failAt \in 0..MaxExecs :
        LET p == LoopBody(result, store, functions[fj], env, failAt)
            \* the Exec call the database refused, 0 when the refusal of
            \* call failAt made no difference to the pass
            refused == IF p = LoopBody(result, store, functions[fj], env, 0)
                       THEN 0 ELSE failAt
        IN /\ result' = p.result
           /\ store' = p.store
           /\ log' = Append(log, [fn |-> functions[fj],
                                  output |-> IF p.ex.err THEN ExitFailure ELSE env.run,
                                  ex |-> p.ex,
                                  create |-> p.create, insert |-> p.insert,
                                  refused |-> refused,
                                  old |-> store[functions[fj].Name],
                                  table |-> p.store[functions[fj].Name]])
    /\ IF fj = Len(functions)
       THEN /\ pc' = "files"
            /\ fi' = fi + 1
            /\ UNCHANGED fj
       ELSE /\ fj' = fj + 1
            /\ UNCHANGED <<pc, fi>>
    /\ UNCHANGED <<repositories, i, processor, extractor, err, goFiles, functions,
                   scan, fuel, outputs>>

\* ProcessRepository returns after the last file: CloseDB and Cleanup run
ReturnResult ==
    /\ pc = "files"
    /\ fi > Len(goFiles)
    /\ pc' = "returned"
    /\ err' = ""
    /\ db' = CloseDB(db)
    /\ dirExists' = Cleanup(dirExists, tempDir)
    /\ UNCHANGED <<repositories, i, processor, tempDir, result, cursor, store, scan,
                   log, fuel, outputs>>

\* updateStats
updateStats(stats, res) ==
    [stats EXCEPT !.TotalFunctions = @ + Len(res.ProcessedFunctions),
                  !.TotalExecuted = @ + Len(res.ExecutedFunctions),
                  !.TotalTables = @ + Len(res.CreatedTables),
                  !.TotalErrors = @ + Len(res.Errors)]

Put(m, k, v) == [u \in DOMAIN m \cup {k} |-> IF u = k THEN v ELSE m[u]]

\* a nil *ProcessingResult
IsNilResult(res) == DOMAIN res = {}

\* what ProcessRepositories keeps for a repository whose processing
\* returned (res, e)
StoredResult(res, e) ==
    IF e # ""
    THEN IF ~IsNilResult(res) THEN res
         ELSE [EmptyResult EXCEPT !.Errors = <<ErrorMsg(e, "")>>]
    ELSE res

\* ProcessRepositories takes what ProcessRepository returned
StoreResult ==
    /\ pc = "returned"
    /\ results' = Put(results, repositories[i], StoredResult(result, err))
    /\ totalStats' = IF err # "" THEN totalStats ELSE updateStats(totalStats, result)
    /\ hist' = Append(hist, [url |-> repositories[i], err |-> err, result |-> result,
                             scan |-> scan, log |-> log,
                             db |-> db, dirExists |-> dirExists])
    /\ i' = i + 1
    /\ pc' = "loop"
    /\ UNCHANGED <<repositories, extractor, result, err, cursor, store, scan, log, fuel, outputs>>

\* the loop is over: ProcessRepositories returns nil
Finish ==
    /\ pc = "loop"
    /\ i > Len(repositories)
    /\ totalStats' = [totalStats EXCEPT !.TotalRepositories = Len(repositories)]
    /\ pc' = "done"
    /\ UNCHANGED <<repositories, i, results, hist, extractor, result, err, cursor,
                   store, scan, log, fuel, outputs>>

Next ==
    \/ Start
    \/ NewExtractor
    \/ CloneRepository
    \/ ConnectToDB
    \/ FindGoFiles
    \/ ExtractFile
    \/ ProcessFunction
    \/ ReturnResult
    \/ StoreResult
    \/ Finish

Spec == Init /\ [][Next]_vars

\* ------------------------------------------------------------------------
\* Properties
\* ------------------------------------------------------------------------
Count(seq, v) == Cardinality({k \in DOMAIN seq : seq[k] = v})
Has(seq, v) == \E k \in DOMAIN seq : seq[k] = v

\* the k-th repository of the list was not processed again later
LastRun(k) == \A m \in DOMAIN hist : m > k => hist[m].url # hist[k].url

Eligible(fn) == fn.Parameters = <<>>

\* the three stages returned without error for the function of a log entry
Succeeded(e) == ~e.ex.err /\ e.create = "ok" /\ e.insert = "ok"

\* a stage returned an error for it
Failed(e) == e.ex.err \/ e.create = "err" \/ e.insert = "err"

\* the functions found in the files of a repository, in scanner order
RECURSIVE Discovered(_)
Discovered(sc) ==
    IF sc = <<>> THEN <<>> ELSE Head(sc).functions \o Discovered(Tail(sc))

\* C1: after ProcessRepositories returns, the result kept for a repository
\* has a message for every failure met while processing it: the failure
\* that ended the repository (clone, connection, traversal), every file that
\* did not parse, every function whose execution, table creation or insert
\* failed.
ErrorsNeverDropped ==
    pc = "done" =>
        \A k \in DOMAIN hist :
            LastRun(k) =>
                LET h == hist[k]
                    errs == results[h.url].Errors
                IN /\ h.err # "" => \E m \in DOMAIN errs : errs[m].stage = h.err
                   /\ \A f \in DOMAIN h.scan :
                        ~h.scan[f].ok => Has(errs, ErrorMsg("extract", f))
                   /\ \A n \in DOMAIN h.log :
                        LET e == h.log[n]
                        IN /\ e.ex.err => Has(errs, ErrorMsg("execute", e.fn.Name))
                           /\ e.create = "err" => Has(errs, ErrorMsg("create", e.fn.Name))
                           /\ e.insert = "err" => Has(errs, ErrorMsg("insert", e.fn.Name))

\* C2: at every point of ProcessRepository, a name is listed in
\* ExecutedFunctions or CreatedTables no more often than there are processed
\* functions of that name for which ExecuteFunction, CreateTableFromData and
\* InsertDataToTable all returned without error: a function that failed at
\* a stage is never listed.
ListedOnlyIfAllStagesSucceeded ==
    \A name \in Names :
        LET ok == Cardinality({k \in DOMAIN log : log[k].fn.Name = name /\ Succeeded(log[k])})
        IN /\ Count(result.ExecutedFunctions, name) <= ok
           /\ Count(result.CreatedTables, name) <= ok

\* a function failed at the insert, after an earlier one had been listed
ListedOnlyIfAllStagesSucceededWitness ==
    /\ Len(log) = 2
    /\ Succeeded(log[1])
    /\ log[2].insert = "err"
    /\ log[1].fn.Name = log[2].fn.Name
    /\ result.ExecutedFunctions = <<log[1].fn.Name>>

\* p comes before q in file order, then declaration order
Before(p, q) ==
    \/ p.FilePath < q.FilePath
    \/ p.FilePath = q.FilePath /\ p.LineNumber < q.LineNumber

\* C3: when ProcessRepository returns without error, ProcessedFunctions
\* holds the functions discovered in the files that parsed, each exactly
\* once, in file order then declaration order, whatever became of each.
ProcessedExactlyOnceInOrder ==
    (pc = "returned" /\ err = "") =>
        LET pf == result.ProcessedFunctions
        IN /\ pf = Discovered(scan)
           /\ \A f \in DOMAIN scan : \A n \in DOMAIN scan[f].functions :
                Count(pf, scan[f].functions[n]) = 1
           /\ \A p, q \in DOMAIN pf : p < q => Before(pf[p], pf[q])

\* two files with one function each, the first of which failed to run
ProcessedExactlyOnceInOrderWitness ==
    /\ pc = "returned" /\ err = ""
    /\ Len(scan) = 2
    /\ Len(scan[1].functions) = 1 /\ Len(scan[2].functions) = 1
    /\ log[1].ex.err
    /\ Len(result.ProcessedFunctions) = 2

\* C4: a function with parameters is recorded in ProcessedFunctions, no
\* temp program is written and no subprocess is started for it, and it is
\* not listed in ExecutedFunctions: a name is listed no more often than
\* there are processed functions of that name without parameters.
ParameterisedNeverRun ==
    /\ \A k \in DOMAIN log :
        ~Eligible(log[k].fn) =>
            /\ result.ProcessedFunctions[k] = log[k].fn
            /\ log[k].ex.err
            /\ ~log[k].ex.wrote
            /\ ~log[k].ex.spawned
    /\ \A name \in Names :
        Count(result.ExecutedFunctions, name) <=
            Cardinality({k \in DOMAIN log : log[k].fn.Name = name /\ Eligible(log[k].fn)})
    /\ (pc = "returned" /\ err = "") =>
        \A f \in DOMAIN scan : \A n \in DOMAIN scan[f].functions :
            Has(result.ProcessedFunctions, scan[f].functions[n])

\* a function with parameters was processed after one of the same name
\* without parameters had been listed
ParameterisedNeverRunWitness ==
    /\ pc = "returned" /\ err = ""
    /\ Len(log) = 2
    /\ Eligible(log[1].fn) /\ Succeeded(log[1])
    /\ ~Eligible(log[2].fn)
    /\ log[2].fn.Name = log[1].fn.Name
    /\ result.ExecutedFunctions = <<log[1].fn.Name>>

EligibleCount == Cardinality({k \in DOMAIN result.ProcessedFunctions :
                                Eligible(result.ProcessedFunctions[k])})
FailedCount == Cardinality({k \in DOMAIN log : Eligible(log[k].fn) /\ Failed(log[k])})
NilCount == Cardinality({k \in DOMAIN log : ~log[k].ex.err /\ log[k].ex.data = GoNil})

\* every discovered function was visited
AllVisited == (pc = "returned" /\ err = "") => Len(log) = Len(Discovered(scan))

\* C5 as stated: the number of executed functions is the number of
\* processed functions without parameters less those that failed at
\* execution, table creation or insertion, and every function is visited.
ExecutedCountAsStated ==
    /\ Len(result.ExecutedFunctions) = EligibleCount - FailedCount
    /\ AllVisited

\* C5, amended: the functions whose output decodes to null are not executed
\* either, though none of their stages failed.
ExecutedCount ==
    /\ Len(result.ExecutedFunctions) = EligibleCount - FailedCount - NilCount
    /\ AllVisited

\* a function that printed null was visited after one whose insert failed
ExecutedCountWitness ==
    /\ pc = "returned" /\ err = ""
    /\ Len(log) = 2
    /\ log[1].insert = "err"
    /\ ~log[2].ex.err /\ log[2].ex.data = GoNil
    /\ result.ExecutedFunctions = <<>>

\* C6 as stated: when a repository is abandoned (connection or traversal
\* failure), the batch goes on with every later repository, every
\* repository of the list has an entry in results, and the entry of the
\* abandoned one tells that it failed.
BatchContinuesAfterAbort ==
    pc = "done" =>
        /\ Len(hist) = Len(repositories)
        /\ \A k \in DOMAIN repositories :
            /\ hist[k].url = repositories[k]
            /\ repositories[k] \in DOMAIN results
            /\ (LastRun(k) /\ hist[k].err \in {"connect", "walk"}) =>
                    results[repositories[k]].Errors # <<>>

IsScalar(v) == v[1] \in {"string", "float64", "bool"}

\* the table of a single value: the one "data" column and the one row
SingleValueTable(v) ==
    [exists |-> TRUE, cols |-> [c \in {"data"} |-> "JSONB"],
     rows |-> <<[c \in {"data"} |-> GoString(Marshal(v))]>>]

\* the names listed for the functions of the log, in order
RECURSIVE ListedNames(_)
ListedNames(entries) ==
    IF entries = <<>> THEN <<>>
    ELSE (IF Succeeded(Head(entries)) THEN <<Head(entries).fn.Name>> ELSE <<>>)
         \o ListedNames(Tail(entries))

\* C7 as stated: a function whose value is a scalar or null, and for which
\* no stage reported an error, has the one-column "data" table with its one
\* row, and is listed in CreatedTables.
SingleValueOneRowAsStated ==
    \A k \in DOMAIN log :
        LET e == log[k]
        IN (~e.ex.err /\ (IsScalar(e.ex.data) \/ e.ex.data = GoNil)
            /\ e.create # "err" /\ e.insert # "err") =>
                /\ e.table = SingleValueTable(e.ex.data)
                /\ Has(result.CreatedTables, e.fn.Name)

\* C7, amended: this holds of the scalars (string, number, boolean).  For a
\* null value nothing is materialised: neither CreateTableFromData nor
\* InsertDataToTable is called, the table of that name is left as it was,
\* the function is not listed and no error is recorded.
SingleValueOneRow ==
    /\ \A k \in DOMAIN log :
        LET e == log[k]
        IN /\ (~e.ex.err /\ IsScalar(e.ex.data) /\ e.create = "ok" /\ e.insert = "ok") =>
                /\ e.table = SingleValueTable(e.ex.data)
                /\ Has(result.CreatedTables, e.fn.Name)
           /\ (~e.ex.err /\ e.ex.data = GoNil) =>
                /\ e.create = "none" /\ e.insert = "none"
                /\ e.table = e.old
    /\ result.CreatedTables = ListedNames(log)
    /\ Len(result.Errors) = Cardinality({k \in DOMAIN log : Failed(log[k])})
                            + Cardinality({f \in DOMAIN scan : ~scan[f].ok})

\* plain text output replaced an older table by the one-row "data" table
SingleValueOneRowWitness ==
    /\ Len(log) = 1
    /\ log[1].output = RawText(<<" ", "H", "i", " ">>)
    /\ log[1].old.exists
    /\ log[1].table.rows = <<[c \in {"data"} |-> GoString("\"Hi\"")]>>
    /\ result.CreatedTables = <<log[1].fn.Name>>

\* the SQL type the priority list gives a field value of the output
SqlTypeOf(j) ==
    CASE j[1] = "num" /\ j[2] % 10 = 0 -> "INTEGER"
      [] j[1] = "num" /\ j[2] % 10 # 0 -> "NUMERIC"
      [] j[1] = "bool"                 -> "BOOLEAN"
      [] j[1] \in {"arr", "obj"}       -> "JSONB"
      [] OTHER                         -> "TEXT"

\* C8 as stated: the columns of the table created for an object output are
\* typed by the priority list (integer-valued number INTEGER, other number
\* NUMERIC, boolean BOOLEAN, array or object JSONB, anything else TEXT); the
\* output {"a":1,"b":"x"} gives a INTEGER and b TEXT.
TypeMappingPriority ==
    \A k \in DOMAIN log :
        LET e == log[k]
        IN (e.output[1] = "obj" /\ e.create = "ok") =>
                /\ DOMAIN e.table.cols = DOMAIN e.output[2]
                /\ \A key \in DOMAIN e.output[2] :
                        e.table.cols[key] = SqlTypeOf(e.output[2][key])

HasNonObject(items) == \E n \in DOMAIN items : ~IsMap(items[n])

\* the table of an array of primitives: the "value" column, a row per
\* element holding its text
PrimitiveTable(items) ==
    [exists |-> TRUE, cols |-> [c \in {"value"} |-> "TEXT"],
     rows |-> [n \in DOMAIN items |-> [c \in {"value"} |-> GoString(Sprintv(items[n]))]]]

\* C9 as stated: an array with an element that is not an object, wherever
\* it sits, is materialised as an array of primitives.
MixedArrayIsPrimitiveAsStated ==
    \A k \in DOMAIN log :
        LET e == log[k]
        IN (~e.ex.err /\ IsSlice(e.ex.data) /\ HasNonObject(e.ex.data[2])
            /\ e.create = "ok" /\ e.insert = "ok") =>
                e.table = PrimitiveTable(e.ex.data[2])

\* C9, amended: the first element alone decides.  An array whose first
\* element is an object gets that element's keys as columns and a row for
\* each element that is an object with at least one key, the other elements
\* getting none; an array whose first element is not an object gets the
\* "value" TEXT column and a row per element holding its text.
FirstElementDecides ==
    \A k \in DOMAIN log :
        LET e == log[k]
            items == e.ex.data[2]
        IN (~e.ex.err /\ IsSlice(e.ex.data) /\ Len(e.ex.data[2]) > 0
            /\ e.create = "ok" /\ e.insert = "ok") =>
                /\ IF IsMap(items[1])
                   THEN /\ DOMAIN e.table.cols = DOMAIN items[1][2]
                        /\ Len(e.table.rows) =
                             Cardinality({n \in DOMAIN items :
                                            IsMap(items[n]) /\ DOMAIN items[n][2] # {}})
                   ELSE e.table = PrimitiveTable(items)
                /\ e.output = JArr(<<JNum(10), ObjA1>>) =>
                     e.table.rows = <<[c \in {"value"} |-> GoString("1")],
                                      [c \in {"value"} |-> GoString("map[a:1]")]>>

\* [{"a":1},1] was materialised with the column a and the single row of its
\* first element
FirstElementDecidesWitness ==
    /\ Len(log) = 1
    /\ log[1].output = JArr(<<ObjA1, JNum(10)>>)
    /\ Succeeded(log[1])
    /\ DOMAIN log[1].table.cols = {"a"}
    /\ Len(log[1].table.rows) = 1

\* C10 as stated: an object value, whatever the number of its keys, gets a
\* table whose data columns are its keys, and exactly one row.
ObjectOneRowAsStated ==
    \A k \in DOMAIN log :
        LET e == log[k]
        IN (~e.ex.err /\ IsMap(e.ex.data) /\ e.create = "ok" /\ e.insert = "ok") =>
                /\ DOMAIN e.table.cols = DOMAIN e.ex.data[2]
                /\ Len(e.table.rows) = 1

\* C10, amended: an object with at least one key gets exactly one row, whose
\* columns are its keys; the object without keys gets a table without data
\* columns and no row.
ObjectOneRow ==
    \A k \in DOMAIN log :
        LET e == log[k]
            keys == DOMAIN e.ex.data[2]
        IN (~e.ex.err /\ IsMap(e.ex.data) /\ e.create = "ok" /\ e.insert = "ok") =>
                /\ DOMAIN e.table.cols = keys
                /\ IF keys = {} THEN e.table.rows = <<>>
                   ELSE /\ Len(e.table.rows) = 1
                        /\ DOMAIN e.table.rows[1] = keys

\* {"a":1,"b":"x"} was materialised with its two columns and one row
ObjectOneRowWitness ==
    /\ Len(log) = 1
    /\ log[1].output = ObjA1Bx
    /\ Succeeded(log[1])
    /\ DOMAIN log[1].table.cols = {"a", "b"}
    /\ log[1].table.rows = <<[k \in {"a", "b"} |-> IF k = "a" THEN GoFloat64(10) ELSE GoString("x")]>>

IsScalarArray(v) == IsSlice(v) /\ \A n \in DOMAIN v[2] : IsScalar(v[2][n])

\* C11 as stated: an array of scalars with n elements, n = 0 included, gets
\* the single "value" TEXT column and n rows, row i holding the text of
\* element i.
ScalarArrayRowsAsStated ==
    \A k \in DOMAIN log :
        LET e == log[k]
        IN (~e.ex.err /\ IsScalarArray(e.ex.data) /\ e.create = "ok" /\ e.insert = "ok") =>
                e.table = PrimitiveTable(e.ex.data[2])

\* C11, amended: an array of n >= 1 scalars gets the single "value" TEXT
\* column and n rows, row i holding the text of element i in array order
\* ([1,2] gives "1","2"); the empty array gets the "data" JSONB column and
\* no row.
ScalarArrayRows ==
    \A k \in DOMAIN log :
        LET e == log[k]
            items == e.ex.data[2]
        IN (~e.ex.err /\ IsScalarArray(e.ex.data) /\ e.create = "ok" /\ e.insert = "ok") =>
                /\ IF Len(items) > 0
                   THEN /\ e.table.cols = [c \in {"value"} |-> "TEXT"]
                        /\ Len(e.table.rows) = Len(items)
                        /\ \A n \in DOMAIN items :
                             e.table.rows[n] = [c \in {"value"} |-> GoString(Sprintv(items[n]))]
                   ELSE /\ e.table.cols = [c \in {"data"} |-> "JSONB"]
                        /\ e.table.rows = <<>>
                /\ e.output = JArr(<<JNum(10), JNum(20)>>) =>
                     e.table.rows = <<[c \in {"value"} |-> GoString("1")],
                                      [c \in {"value"} |-> GoString("2")]>>

\* [1,2] replaced an older table by the "value" table with its two rows
ScalarArrayRowsWitness ==
    /\ Len(log) = 1
    /\ log[1].output = JArr(<<JNum(10), JNum(20)>>)
    /\ Succeeded(log[1])
    /\ log[1].old.exists
    /\ log[1].table.cols = [c \in {"value"} |-> "TEXT"]
    /\ Len(log[1].table.rows) = 2

\* the store after CreateTableFromData and, when it returned without error,
\* InsertDataToTable, as the loop body calls them for one function
MaterializedStore(st, tableName, data, failAt) ==
    LET c == CreateTableFromData(st, tableName, data, failAt)
    IN IF c.err THEN c.store ELSE InsertDataToTable(c.store, tableName, data, failAt).store

SameShape(t1, t2) ==
    /\ t1.exists = t2.exists
    /\ t1.cols = t2.cols
    /\ Len(t1.rows) = Len(t2.rows)

\* C12: materialising the same value under the same name twice in
\* succession leaves, after the second time, a table with the same columns
\* and types and the same number of rows as after the first, whatever the
\* value and whatever table of that name existed before: for every function
\* that was materialised, repeating CreateTableFromData and InsertDataToTable
\* on the store it left gives the table it left; and when two functions of
\* one name print the same value one after the other, the table after the
\* second has the shape it had after the first.
MaterializationIdempotent ==
    /\ \A k \in DOMAIN log :
        LET e == log[k]
            name == e.fn.Name
            prior == [EmptyStore EXCEPT ![name] = e.old]
        IN e.create # "none" =>
            /\ \E f \in 0..MaxExecs :
                    e.table = MaterializedStore(prior, name, e.ex.data, f)[name]
            /\ \A f \in 0..MaxExecs :
                    LET once == MaterializedStore(prior, name, e.ex.data, f)
                        twice == MaterializedStore(once, name, e.ex.data, f)
                    IN SameShape(once[name], twice[name])
    /\ \A k \in DOMAIN log :
        (/\ k > 1
         /\ log[k].fn.Name = log[k - 1].fn.Name
         /\ log[k].output = log[k - 1].output
         /\ Succeeded(log[k - 1]) /\ Succeeded(log[k])) =>
            /\ log[k].old = log[k - 1].table
            /\ SameShape(log[k - 1].table, log[k].table)

\* two functions of one name printed the same text one after the other, and
\* the table still has its one row
MaterializationIdempotentWitness ==
    /\ Len(log) = 2
    /\ log[1].fn.Name = log[2].fn.Name
    /\ log[1].output = JStr("x") /\ log[2].output = JStr("x")
    /\ Succeeded(log[1]) /\ Succeeded(log[2])
    /\ log[2].old.exists
    /\ Len(log[2].table.rows) = 1

\* the subprocess of the function of a log entry was started and failed
ExitedNonZero(e) == e.output = ExitFailure /\ e.ex.spawned

\* C13: a function whose subprocess exits non-zero or cannot be launched
\* gets an error and no value from ExecuteFunction; the pass of the loop
\* that visits it appends exactly one message to Errors, sends no statement
\* to the database (neither CreateTableFromData nor InsertDataToTable is
\* called, the store is unchanged) and adds nothing to CreatedTables or
\* ExecutedFunctions.
ExitFailureOnlyRecordsError ==
    [][ (Len(log') = Len(log) + 1 /\ ExitedNonZero(log'[Len(log')])) =>
            LET e == log'[Len(log')]
            IN /\ e.ex.err
               /\ e.ex.data = GoNil
               /\ result'.Errors = Append(result.Errors, ErrorMsg("execute", e.fn.Name))
               /\ e.create = "none" /\ e.insert = "none"
               /\ store' = store
               /\ result'.CreatedTables = result.CreatedTables
               /\ result'.ExecutedFunctions = result.ExecutedFunctions ]_vars

\* a function exited non-zero after one of the same name had been listed:
\* one error, the table of the first untouched
ExitFailureOnlyRecordsErrorWitness ==
    /\ Len(log) = 2
    /\ Succeeded(log[1])
    /\ log[2].fn.Name = log[1].fn.Name
    /\ ExitedNonZero(log[2])
    /\ log[2].table = log[1].table
    /\ Len(result.Errors) = 1
    /\ result.CreatedTables = <<log[1].fn.Name>>

\* an array of objects in which an element after the first has a key the
\* first has not
LaterKeyAbsent(v) ==
    /\ IsSlice(v)
    /\ Len(v[2]) > 1
    /\ \A n \in DOMAIN v[2] : IsMap(v[2][n])
    /\ \E n \in DOMAIN v[2] : n > 1 /\ ~(DOMAIN v[2][n][2] \subseteq DOMAIN v[2][1][2])

\* C14: for an array of objects in which a later element has a key absent
\* from the first, InsertDataToTable fails whenever the table was created;
\* the pass that visits the function appends exactly one message for it,
\* adds nothing to CreatedTables or ExecutedFunctions, and goes on with the
\* next function of the file or the next file; and when ProcessRepository
\* returns, every discovered function has been visited, in order.
ExtraKeyFailsOnlyItsFunction ==
    /\ [][ (Len(log') = Len(log) + 1 /\ ~log'[Len(log')].ex.err
            /\ LaterKeyAbsent(log'[Len(log')].ex.data)) =>
                LET e == log'[Len(log')]
                IN /\ e.create = "ok" => e.insert = "err"
                   /\ e.create \in {"ok", "err"}
                   /\ result'.Errors =
                        Append(result.Errors,
                               ErrorMsg(IF e.create = "err" THEN "create" ELSE "insert",
                                        e.fn.Name))
                   /\ result'.CreatedTables = result.CreatedTables
                   /\ result'.ExecutedFunctions = result.ExecutedFunctions
                   /\ err' = ""
                   /\ IF fj < Len(functions)
                      THEN pc' = "funcs" /\ fj' = fj + 1 /\ fi' = fi
                      ELSE pc' = "files" /\ fi' = fi + 1 ]_vars
    /\ []((pc = "returned" /\ err = "") =>
            /\ Len(log) = Len(Discovered(scan))
            /\ \A k \in DOMAIN log : log[k].fn = Discovered(scan)[k])

\* the insert for [{"a":1},{"a":1,"b":"x"}] failed, and the next function
\* of the same file was materialised and listed
ExtraKeyFailsOnlyItsFunctionWitness ==
    /\ pc = "returned" /\ err = ""
    /\ Len(log) = 2
    /\ log[1].output = JArr(<<ObjA1, ObjA1Bx>>)
    /\ log[1].create = "ok" /\ log[1].insert = "err"
    /\ log[2].fn.FilePath = log[1].fn.FilePath
    /\ Succeeded(log[2])
    /\ result.Errors = <<ErrorMsg("insert", log[1].fn.Name)>>
    /\ result.CreatedTables = <<log[2].fn.Name>>
    /\ result.ExecutedFunctions = <<log[2].fn.Name>>

\* the entries of scan for the files that parsed
Parsed(sc) == SelectSeq(sc, LAMBDA f : f.ok)

\* C15: a file that fails to parse is skipped, and only it: the pass that
\* visits it appends exactly one message, adds no function to
\* ProcessedFunctions, touches neither the store nor the other lists, and
\* goes on with the next file; when ProcessRepository returns, one file has
\* been visited per file found, ProcessedFunctions holds the functions of
\* the files that parsed, those before and those after a bad file, each
\* visited, exactly as if the bad files were absent, and Errors holds one
\* "extract" message per bad file.
ParseFailureSkipsOnlyThatFile ==
    /\ [][ (Len(scan') = Len(scan) + 1 /\ ~scan'[Len(scan')].ok) =>
                /\ result'.Errors = Append(result.Errors, ErrorMsg("extract", goFiles[fi]))
                /\ result'.ProcessedFunctions = result.ProcessedFunctions
                /\ result'.CreatedTables = result.CreatedTables
                /\ result'.ExecutedFunctions = result.ExecutedFunctions
                /\ store' = store /\ log' = log
                /\ pc' = "files" /\ fi' = fi + 1 /\ err' = "" ]_vars
    /\ []((pc = "returned" /\ err = "") =>
            /\ Len(scan) = Len(goFiles)
            /\ result.ProcessedFunctions = Discovered(Parsed(scan))
            /\ Len(log) = Len(Discovered(Parsed(scan)))
            /\ \A k \in DOMAIN log : log[k].fn = Discovered(Parsed(scan))[k]
            /\ Cardinality({m \in DOMAIN result.Errors : result.Errors[m].stage = "extract"})
                 = Cardinality({f \in DOMAIN scan : ~scan[f].ok}))

\* the first of two files failed to parse and the function of the second
\* was processed and listed
ParseFailureSkipsOnlyThatFileWitness ==
    /\ pc = "returned" /\ err = ""
    /\ Len(scan) = 2
    /\ ~scan[1].ok /\ scan[2].ok
    /\ Len(scan[2].functions) = 1
    /\ result.ProcessedFunctions = scan[2].functions
    /\ result.Errors = <<ErrorMsg("extract", 1)>>
    /\ Len(log) = 1 /\ Succeeded(log[1])

\* C16 as stated: whenever ProcessRepository returns (success, clone failure
\* after the directory was created, connection failure, traversal failure),
\* the temporary directory created for the repository no longer exists.
TempDirRemovedOnEveryExit ==
    pc = "returned" => ~dirExists

\* C17 as stated: the connection is opened at most once per repository and
\* no handle is open when ProcessRepository returns, whichever way it
\* returns (ping failure after open, traversal failure, function failures).
ConnectionClosedOnEveryExit ==
    pc = "returned" => db # "open"

\* C18 as stated: within one repository run no table gets a DROP, CREATE or
\* INSERT from two different function descriptors, also when two files
\* declare exported functions of the same name; so when the run returns,
\* every name of CreatedTables is listed for one function and its table is
\* the one that function's materialization left.
TableOwnedByOneFunction ==
    /\ \A k, m \in DOMAIN log :
        (/\ k < m
         /\ log[k].fn.FilePath # log[m].fn.FilePath
         /\ log[k].create # "none" /\ log[m].create # "none") =>
            log[k].fn.Name # log[m].fn.Name
    /\ (pc = "returned" /\ err = "") =>
        /\ \A name \in Names : Count(result.CreatedTables, name) <= 1
        /\ \A k \in DOMAIN log :
            Succeeded(log[k]) => store[log[k].fn.Name] = log[k].table

\* the sum, over the entries of results for the URLs us, of the length of
\* one of their lists
RECURSIVE SumOfResults(_, _)
SumOfResults(us, field) ==
    IF us = {} THEN 0
    ELSE LET u == CHOOSE x \in us : TRUE
         IN Len(results[u][field]) + SumOfResults(us \ {u}, field)

\* C19 as stated: after ProcessRepositories returns, for any input list,
\* TotalRepositories is the length of the list and TotalFunctions,
\* TotalExecuted, TotalTables and TotalErrors are the sums, over the entries
\* of results, of the lengths of ProcessedFunctions, ExecutedFunctions,
\* CreatedTables and Errors.
CountersAgreeWithResults ==
    pc = "done" =>
        /\ totalStats.TotalRepositories = Len(repositories)
        /\ totalStats.TotalFunctions = SumOfResults(DOMAIN results, "ProcessedFunctions")
        /\ totalStats.TotalExecuted = SumOfResults(DOMAIN results, "ExecutedFunctions")
        /\ totalStats.TotalTables = SumOfResults(DOMAIN results, "CreatedTables")
        /\ totalStats.TotalErrors = SumOfResults(DOMAIN results, "Errors")

\* the rows a complete insert of the array items gives, in order
RowOfRecord(record) == [k \in DOMAIN record |-> BoundValue(record[k])]
FullRows(items) ==
    IF IsMap(items[1])
    THEN LET recs == SelectSeq(items, LAMBDA v : IsMap(v) /\ DOMAIN v[2] # {})
         IN [n \in DOMAIN recs |-> RowOfRecord(recs[n][2])]
    ELSE [n \in DOMAIN items |-> [c \in {"value"} |-> GoString(Sprintv(items[n]))]]

\* C20: materialization is not atomic.  When the insert of an element of an
\* array fails, the table created for the function stays in the store with
\* the rows inserted before it, in order, and no row of a later element;
\* when it is the insert of row k >= 2 of an array of primitives that the
\* database refuses, these are the rows 1..k-1; the function is added to
\* neither CreatedTables nor ExecutedFunctions.  When the CREATE fails after
\* the DROP, no table of that name is left, whatever table existed before.
MaterializationNotAtomic ==
    /\ []\A k \in DOMAIN log :
            LET e == log[k]
                items == e.ex.data[2]
            IN /\ (~e.ex.err /\ IsSlice(e.ex.data) /\ e.insert = "err") =>
                    /\ e.create = "ok"
                    /\ e.table.exists
                    /\ e.table.cols = TableColumns(e.ex.data)
                    /\ Len(e.table.rows) < Len(FullRows(items))
                    /\ e.table.rows = SubSeq(FullRows(items), 1, Len(e.table.rows))
               /\ (~e.ex.err /\ IsSlice(e.ex.data) /\ Len(items) > 0 /\ ~IsMap(items[1])
                   /\ e.refused >= 4 /\ e.refused - 2 <= Len(items)) =>
                    /\ e.insert = "err"
                    /\ e.table.rows = SubSeq(FullRows(items), 1, e.refused - 3)
               /\ (~e.ex.err /\ e.output = JArr(<<ObjA1, ObjA1Bx>>) /\ e.refused \in {0, 4}) =>
                    /\ e.insert = "err"
                    /\ e.table.rows = <<[c \in {"a"} |-> GoFloat64(10)]>>
               /\ e.refused = 2 =>
                    /\ e.create = "err" /\ e.insert = "none"
                    /\ ~e.table.exists
    /\ [][ (Len(log') = Len(log) + 1
            /\ (log'[Len(log')].insert = "err" \/ log'[Len(log')].create = "err")) =>
                LET e == log'[Len(log')]
                IN /\ store'[e.fn.Name] = e.table
                   /\ \A name \in Names \ {e.fn.Name} : store'[name] = store[name]
                   /\ result'.CreatedTables = result.CreatedTables
                   /\ result'.ExecutedFunctions = result.ExecutedFunctions ]_vars

\* the insert of the second element of [{"a":1},{"a":1,"b":"x"}] failed and
\* left the table with its first row; then, for a function of the same
\* name, the CREATE failed after the DROP and the table was gone; neither
\* function is listed
MaterializationNotAtomicWitness ==
    /\ Len(log) = 2
    /\ log[1].output = JArr(<<ObjA1, ObjA1Bx>>)
    /\ log[1].create = "ok" /\ log[1].insert = "err"
    /\ Len(log[1].table.rows) = 1
    /\ log[2].fn.Name = log[1].fn.Name
    /\ log[2].old = log[1].table
    /\ log[2].refused = 2
    /\ ~store[log[2].fn.Name].exists
    /\ result.CreatedTables = <<>> /\ result.ExecutedFunctions = <<>>
    /\ Len(result.Errors) = 2
====
